---- MODULE Spec2Model ----
(***************************************************************************)
(* MemoryDocumentStore of haystack.preview: the identifier -> Document     *)
(* mapping with write_documents / delete_documents / count_documents /     *)
(* filter_documents and the BM25 retrieval pipeline built on top of it.    *)
(***************************************************************************)
EXTENDS Integers, Sequences, FiniteSets, TLC

\* ---------------------------------------------------------------- bounds
MaxDocs == 2         \* longest argument of write_documents
MaxDel == 3          \* longest argument of delete_documents
MaxTopK == 2         \* top_k of bm25_retrieval ranges over -MaxNegTopK..MaxTopK
MaxNegTopK == 1
MaxRaw == 1          \* raw BM25 term weights range over -1..MaxRaw

\* ------------------------------------------------------------- documents
Ids == {"a", "b"}            \* the identifiers documents are written under
MissingId == "missing-id"    \* an identifier no stored document carries
NotADocument == [notdoc |-> TRUE]   \* any object that is not a Document

\* Optional[float]: <<>> is None, <<s>> is the score s
NoScore == <<>>

\* payloads: a str, or a pandas DataFrame whose cells render to `text`
TextCat == [frame |-> FALSE, text |-> "Cat"]
FrameDog == [frame |-> TRUE, text |-> "Dog"]
TextDog == [frame |-> FALSE, text |-> "dog"]

\* the Document records callers build: a text document, a table document
\* holding a DataFrame, a table document holding something else, and a
\* document of a type retrieval does not look at
Documents ==
  [id : Ids, content : {TextCat}, content_type : {"text"}, score : {NoScore}]
  \cup [id : Ids, content : {FrameDog, TextDog}, content_type : {"table"},
        score : {NoScore}]
  \cup [id : Ids, content : {TextDog}, content_type : {"image"}, score : {NoScore}]

DuplicatePolicy == {"skip", "overwrite", "fail"}

\* ------------------------------------------------- dict (insertion order)
\* self.storage is a Python dict: a sequence of entries [key, value]
Keys(d) == {d[i].key : i \in 1..Len(d)}
Values(d) == [i \in 1..Len(d) |-> d[i].value]
HasKey(d, k) == k \in Keys(d)
Get(d, k) == (CHOOSE i \in 1..Len(d) : d[i].key = k) (* d[k] *)
GetValue(d, k) == d[Get(d, k)].value

\* d[k] = v : replaces the value in place when k is a key, appends otherwise
DictSetAppend(d, k, v) == Append(d, [key |-> k, value |-> v])
DictSet(d, k, v) ==
  IF HasKey(d, k)
  THEN [i \in 1..Len(d) |-> IF d[i].key = k THEN [key |-> k, value |-> v] ELSE d[i]]
  ELSE Append(d, [key |-> k, value |-> v])

\* del d[k]
DictDel(d, k) == SelectSeq(d, LAMBDA e : e.key # k)

\* ---------------------------------------------------------------- state
VARIABLES storage,   \* self.storage
          bm25,      \* self.bm25, the ranking model of the last retrieval
          call,      \* the last call: its name and arguments
          pre,       \* self.storage when the last call started
          raised,    \* the exception the last call raised, or "none"
          warnings,  \* ids logger.warning was called with during the last call
          result     \* what the last call returned

\* a ConversationalAgent (src/haystack/agents/conversational.py)
VARIABLES agent,       \* what __init__ was given and what it handed to Agent.__init__
          tm,          \* self.tm.tools: tool name -> Tool, in insertion order
          agent_call   \* the last add_tool call and its outcome

\* a TopPSampler (src/haystack/nodes/sampler/top_p_sampler.py)
VARIABLES sampler,     \* self.top_p, self.strict, self.top_score_field
          predicted    \* the last predict call: its arguments and what it returned

storeVars == <<storage, bm25, call, pre, raised, warnings, result>>
agentVars == <<agent, tm, agent_call>>
samplerVars == <<sampler, predicted>>
vars == <<storeVars, agentVars, samplerVars>>

NoResult == <<>>

Idle == [op |-> "idle"]

\* an object whose __init__ has not run yet
NotConstructed == [state |-> "new"]

Init ==
  /\ storage = <<>>
  /\ bm25 = <<>>
  /\ call = Idle
  /\ pre = <<>>
  /\ raised = "none"
  /\ warnings = <<>>
  /\ result = NoResult
  /\ agent = NotConstructed
  /\ tm = <<>>
  /\ agent_call = Idle
  /\ sampler = NotConstructed
  /\ predicted = Idle

\* ------------------------------------------------------- write_documents
\* the iterables a caller can pass: a list (any re-iterable container), an
\* iterator (generator: one traversal only), a str, or a non-iterable object
ArgKinds == {"list", "iterator", "str", "noniterable"}

RECURSIVE SeqsUpTo(_, _)
SeqsUpTo(S, n) ==
  IF n = 0 THEN {<<>>}
  ELSE LET shorter == SeqsUpTo(S, n - 1)
       IN shorter \cup {Append(s, x) : s \in {t \in shorter : Len(t) = n - 1}, x \in S}

IsDocument(x) == x \in Documents

\* lines 134-138: the condition that raises ValueError
invalid_documents(kind, elems) ==
  \/ kind = "noniterable"
  \/ kind = "str"
  \/ \E i \in 1..Len(elems) : ~IsDocument(elems[i])

\* what `for document in documents` at line 141 still iterates over after
\* any(...) has traversed the argument once at line 137
remaining_documents(kind, elems) ==
  IF kind = "iterator" THEN <<>> ELSE elems

\* lines 141-147
RECURSIVE write_loop(_, _, _, _)
write_loop(st, docs, duplicates, warned) ==
  IF docs = <<>>
  THEN [storage |-> st, raised |-> "none", warnings |-> warned]
  ELSE LET document == Head(docs)
           dup == HasKey(st, document.id)
       IN IF dup /\ duplicates = "fail"
          THEN [storage |-> st, raised |-> "DuplicateDocumentError", warnings |-> warned]
          ELSE write_loop(DictSet(st, document.id, document), Tail(docs), duplicates,
                          IF dup /\ duplicates = "skip"
                          THEN Append(warned, document.id) ELSE warned)

\* validation inside the loop instead of before it
RECURSIVE write_loop_validating(_, _, _, _)
write_loop_validating(st, docs, duplicates, warned) ==
  IF docs = <<>>
  THEN [storage |-> st, raised |-> "none", warnings |-> warned]
  ELSE LET document == Head(docs)
       IN IF ~IsDocument(document)
          THEN [storage |-> st, raised |-> "ValueError", warnings |-> warned]
          ELSE LET dup == HasKey(st, document.id)
               IN IF dup /\ duplicates = "fail"
                  THEN [storage |-> st, raised |-> "DuplicateDocumentError",
                        warnings |-> warned]
                  ELSE write_loop_validating(
                         DictSet(st, document.id, document), Tail(docs), duplicates,
                         IF dup /\ duplicates = "skip"
                         THEN Append(warned, document.id) ELSE warned)

write_documents_lazy(st, kind, elems, duplicates) ==
  IF kind \in {"noniterable", "str"}
  THEN [storage |-> st, raised |-> "ValueError", warnings |-> <<>>]
  ELSE write_loop_validating(st, elems, duplicates, <<>>)

\* lines 121-147
write_documents(st, kind, elems, duplicates) ==
  IF invalid_documents(kind, elems)
  THEN [storage |-> st, raised |-> "ValueError", warnings |-> <<>>]
  ELSE write_loop(st, remaining_documents(kind, elems), duplicates, <<>>)

WriteArgs == SeqsUpTo(Documents \cup {NotADocument}, MaxDocs)

WriteDocuments ==
  /\ UNCHANGED <<agentVars, samplerVars>>
  /\ call = Idle
  /\ \E kind \in ArgKinds, duplicates \in DuplicatePolicy :
       \E elems \in (IF kind \in {"list", "iterator"} THEN WriteArgs ELSE {<<>>}) :
         LET out == write_documents(storage, kind, elems, duplicates)
         IN /\ storage' = out.storage
            /\ raised' = out.raised
            /\ warnings' = out.warnings
            /\ call' = [op |-> "write_documents", kind |-> kind,
                        documents |-> elems, duplicates |-> duplicates]
            /\ pre' = storage
            /\ result' = NoResult
            /\ UNCHANGED bm25

\* ------------------------------------------------------ delete_documents
\* a missing id is skipped instead of raising
RECURSIVE delete_loop_lenient(_, _)
delete_loop_lenient(st, ids) ==
  IF ids = <<>>
  THEN [storage |-> st, raised |-> "none"]
  ELSE delete_loop_lenient(DictDel(st, Head(ids)), Tail(ids))

\* lines 156-159
RECURSIVE delete_documents(_, _)
delete_documents(st, document_ids) ==
  IF document_ids = <<>>
  THEN [storage |-> st, raised |-> "none"]
  ELSE LET doc_id == Head(document_ids)
       IN IF ~HasKey(st, doc_id)
          THEN [storage |-> st, raised |-> "MissingDocumentError"]
          ELSE delete_documents(DictDel(st, doc_id), Tail(document_ids))

DeleteArgs == SeqsUpTo(Ids \cup {MissingId}, MaxDel)

DeleteDocuments ==
  /\ UNCHANGED <<agentVars, samplerVars>>
  /\ call = Idle
  /\ \E document_ids \in DeleteArgs :
       LET out == delete_documents(storage, document_ids)
       IN /\ storage' = out.storage
          /\ raised' = out.raised
          /\ warnings' = <<>>
          /\ call' = [op |-> "delete_documents", document_ids |-> document_ids]
          /\ pre' = storage
          /\ result' = NoResult
          /\ UNCHANGED bm25

\* ------------------------------------- count_documents, filter_documents
\* line 44
count_documents(st) == Len(st)

\* a filter dictionary is a set of conditions [field, in]; None and {} are
\* the empty set
NoFilters == {}
TextOrTable == {[field |-> "content_type", in |-> {"text", "table"}]}
\* {"id": {"$eq": x}}: the field is one of the single value x
IdEquals(x) == {[field |-> "id", in |-> {x}]}

\* _filters.match for the filters used here: every condition's field of the
\* document is one of the values listed for it. The fields of the Document
\* record are read from the document itself, as the filter of line 185 needs.
match(conditions, document) ==
  \A c \in conditions : document[c.field] \in c.in

\* the filters are ignored
filter_documents_unfiltered(st, filters) == Values(st)

\* lines 117-119
filter_documents(st, filters) ==
  IF filters # NoFilters
  THEN SelectSeq(Values(st), LAMBDA doc : match(filters, doc))
  ELSE Values(st)

CountDocuments ==
  /\ UNCHANGED <<agentVars, samplerVars>>
  /\ call = Idle
  /\ call' = [op |-> "count_documents"]
  /\ result' = count_documents(storage)
  /\ pre' = storage
  /\ raised' = "none"
  /\ warnings' = <<>>
  /\ UNCHANGED <<storage, bm25>>

FilterDocuments ==
  /\ UNCHANGED <<agentVars, samplerVars>>
  /\ call = Idle
  /\ \E filters \in {NoFilters, TextOrTable}
                     \cup {IdEquals(x) : x \in Ids \cup {MissingId}} :
       /\ call' = [op |-> "filter_documents", filters |-> filters]
       /\ result' = filter_documents(storage, filters)
  /\ pre' = storage
  /\ raised' = "none"
  /\ warnings' = <<>>
  /\ UNCHANGED <<storage, bm25>>

\* -------------------------------------------------------- bm25_retrieval
\* str.lower()
Lower(w) ==
  CASE w = "Cat" -> "cat"
    [] w = "Dog" -> "dog"
    [] OTHER -> w

\* DataFrame.astype(str).to_csv(index=False): the text of the frame's cells
ToCsv(content) == content.text

\* lines 186-192: documents that are neither text nor a DataFrame table add
\* no entry to the corpus
RECURSIVE lower_case_documents(_)
lower_case_documents(all_documents) ==
  IF all_documents = <<>> THEN <<>>
  ELSE LET doc == Head(all_documents)
           rest == lower_case_documents(Tail(all_documents))
       IN IF doc.content_type = "text"
          THEN <<Lower(doc.content.text)>> \o rest
          ELSE IF doc.content_type = "table" /\ doc.content.frame
               THEN <<Lower(ToCsv(doc.content))>> \o rest
               ELSE rest

\* re.compile(r"(?u)\b\w\w+\b").findall on a one-word string
Tokenize(s) == IF Len(s) >= 2 THEN <<s>> ELSE <<>>

\* lines 194-197
tokenized_corpus(lower_case) == [i \in 1..Len(lower_case) |-> Tokenize(lower_case[i])]

\* line 200
QueryWords == {"Cat", "dog"}
tokenized_query(query) == {Lower(w) : w \in query}

\* rank_bm25: BM25.__init__ divides the corpus' token count by its size
bm25_algorithm_raises(corpus) == Len(corpus) = 0

\* rank_bm25: get_scores adds up, for every query token, that token's weight
\* in the document (0 where the document lacks it); `weights` gives the
\* weight of a query token in a document holding it once
RawScores == (-1)..MaxRaw

RECURSIVE SumWeights(_, _, _)
SumWeights(tokens, qtokens, weights) ==
  IF tokens = <<>> THEN 0
  ELSE (IF Head(tokens) \in qtokens THEN weights[Head(tokens)] ELSE 0)
       + SumWeights(Tail(tokens), qtokens, weights)

get_scores(corpus, qtokens, weights) ==
  [i \in 1..Len(corpus) |-> SumWeights(corpus[i], qtokens, weights)]

\* expit(score / 8), in thousandths
Expit8(score) ==
  CASE score <= -3 -> 407
    [] score = -2 -> 438
    [] score = -1 -> 469
    [] score = 0 -> 500
    [] score = 1 -> 531
    [] score = 2 -> 562
    [] score = 3 -> 593
    [] OTHER -> 622

\* lines 202-204
scaled_scores(docs_scores, scale_score) ==
  IF scale_score
  THEN [i \in 1..Len(docs_scores) |-> Expit8(docs_scores[i])]
  ELSE docs_scores

\* np.argsort (default kind, not stable): every ordering of the positions
\* that puts the scores in ascending order
Orderings(n) ==
  {p \in [1..n -> 1..n] : \A i, j \in 1..n : i # j => p[i] # p[j]}
argsort(docs_scores) ==
  {p \in Orderings(Len(docs_scores)) :
     \A i \in 1..(Len(docs_scores) - 1) : docs_scores[p[i]] <= docs_scores[p[i + 1]]}

\* seq[::-1]
Reversed(seq) == [i \in 1..Len(seq) |-> seq[Len(seq) + 1 - i]]

\* seq[:stop]
SliceTo(seq, stop) ==
  LET n == Len(seq)
      last == IF stop >= 0
              THEN (IF stop < n THEN stop ELSE n)
              ELSE (IF n + stop > 0 THEN n + stop ELSE 0)
  IN SubSeq(seq, 1, last)

\* line 205, for the ordering argsort produced
top_docs_positions(order, top_k) == SliceTo(Reversed(order), top_k)

\* the score is written into the stored document, which is returned itself
annotate_in_place(st, doc, score) ==
  LET scored == [doc EXCEPT !.score = <<score>>]
  IN [storage |-> IF HasKey(st, doc.id) THEN DictSet(st, doc.id, scored) ELSE st,
      doc |-> scored]

\* lines 209-213: to_dict, the score entry, a new Document, its copy; the
\* stored document is not written to
annotated_copy(st, doc, score) ==
  [storage |-> st, doc |-> [doc EXCEPT !.score = <<score>>]]

\* lines 207-215
RECURSIVE return_documents(_, _, _, _)
return_documents(st, all_documents, docs_scores, positions) ==
  IF positions = <<>> THEN [storage |-> st, docs |-> <<>>]
  ELSE LET i == Head(positions)
           one == annotated_copy(st, all_documents[i], docs_scores[i])
           rest == return_documents(one.storage, all_documents, docs_scores,
                                    Tail(positions))
       IN [storage |-> rest.storage, docs |-> <<one.doc>> \o rest.docs]

TopKs == (-MaxNegTopK)..MaxTopK

Bm25Retrieval ==
  /\ UNCHANGED <<agentVars, samplerVars>>
  /\ call = Idle
  /\ \E query \in SUBSET QueryWords, top_k \in TopKs, scale_score \in BOOLEAN :
       LET all_documents == filter_documents(storage, TextOrTable)
           corpus == tokenized_corpus(lower_case_documents(all_documents))
           qtokens == tokenized_query(query)
       IN IF bm25_algorithm_raises(corpus)
          THEN /\ raised' = "ZeroDivisionError"
               /\ result' = NoResult
               /\ call' = [op |-> "bm25_retrieval", query |-> query, top_k |-> top_k,
                           scale_score |-> scale_score]
               /\ UNCHANGED <<storage, bm25>>
          ELSE \E weights \in [qtokens -> RawScores] :
                 LET docs_scores == scaled_scores(get_scores(corpus, qtokens, weights),
                                                  scale_score)
                 IN \E order \in argsort(docs_scores) :
                      LET out == return_documents(storage, all_documents, docs_scores,
                                                  top_docs_positions(order, top_k))
                      IN /\ raised' = "none"
                         /\ result' = out.docs
                         /\ storage' = out.storage
                         /\ bm25' = corpus
                         /\ call' = [op |-> "bm25_retrieval", query |-> query,
                                     top_k |-> top_k, scale_score |-> scale_score,
                                     weights |-> weights, order |-> order]
  /\ pre' = storage
  /\ warnings' = <<>>

\* the call is over: the caller drops its arguments and its outcome, the
\* store keeps self.storage and self.bm25
Return ==
  /\ UNCHANGED <<agentVars, samplerVars>>
  /\ call # Idle
  /\ call' = Idle
  /\ pre' = <<>>
  /\ raised' = "none"
  /\ warnings' = <<>>
  /\ result' = NoResult
  /\ UNCHANGED <<storage, bm25>>

Next ==
  \/ WriteDocuments
  \/ DeleteDocuments
  \/ CountDocuments
  \/ FilterDocuments
  \/ Bm25Retrieval
  \/ Return

Spec == Init /\ [][Next]_vars

\* ===================================================== ConversationalAgent
MaxTools == 2

\* an Optional argument: None, or the value given
None == <<>>
Some(x) == <<x>>

\* Tool objects: a name and the rest of the tool
ToolNames == {"search", "calculator", "weather"}
Tools == [name : ToolNames, description : {"first", "second"}]

\* ToolsManager(tools=tools): {tool.name: tool for tool in tools}
RECURSIVE ToolsManager(_)
ToolsManager(tools) ==
  IF tools = <<>> THEN <<>>
  ELSE LET last == tools[Len(tools)]
       IN DictSet(ToolsManager(SubSeq(tools, 1, Len(tools) - 1)), last.name, last)

\* Agent.add_tool: self.tm.tools[tool.name] = tool
Agent_add_tool(tools, tool) == DictSet(tools, tool.name, tool)

\* lines 72-92; Agent.__init__ without a tools_manager makes an empty one
ConversationalAgentInit ==
  /\ agent = NotConstructed
  /\ \E tools \in {None} \cup {Some(list) : list \in SeqsUpTo(Tools, MaxTools)} :
       IF tools # None /\ tools # Some(<<>>)
       THEN /\ agent' = [state |-> "ready", tools |-> tools, max_steps |-> 5,
                         prompt_template |-> "conversational-agent",
                         warned |-> FALSE]
            /\ tm' = ToolsManager(tools[1])
       ELSE /\ agent' = [state |-> "ready", tools |-> tools, max_steps |-> 2,
                         prompt_template |-> "conversational-agent-without-tools",
                         warned |-> TRUE]
            /\ tm' = ToolsManager(<<>>)
  /\ agent_call' = Idle
  /\ UNCHANGED <<storeVars, samplerVars>>

\* add_tool hands every tool to Agent.add_tool
add_tool_unguarded(tools, tool) ==
  [raised |-> "none", tools |-> Agent_add_tool(tools, tool)]

\* lines 94-99
add_tool(tools, tool) ==
  IF Len(tools) = 0
  THEN [raised |-> "AgentError", tools |-> tools]
  ELSE [raised |-> "none", tools |-> Agent_add_tool(tools, tool)]

AddTool ==
  /\ agent.state = "ready"
  /\ \E tool \in Tools :
       LET out == add_tool(tm, tool)
       IN /\ tm' = out.tools
          /\ agent_call' = [op |-> "add_tool", tool |-> tool, before |-> tm,
                            raised |-> out.raised]
  /\ UNCHANGED <<agent, storeVars, samplerVars>>

NextAgent ==
  \/ ConversationalAgentInit
  \/ AddTool

SpecAgent == Init /\ [][NextAgent]_vars

\* ============================================================ TopPSampler
MaxSamplerDocs == 2
MaxLogit == 2

\* the Document objects handed to predict
SamplerDocs == {"d1", "d2"}

\* what self.cross_encoder.predict can answer for one query/document pair
Logits == 0..MaxLogit

\* top_p values, in thousandths
TopPValues == {0, 300, 500, 900, 1000}

\* lines 43-73: top_p, strict and top_score_field are stored as given
TopPSamplerInit ==
  /\ sampler = NotConstructed
  /\ \E top_p \in {None, Some(0), Some(500), Some(1000)}, strict \in BOOLEAN,
        top_score_field \in {None, Some("score")} :
       sampler' = [state |-> "ready", top_p |-> top_p, strict |-> strict,
                   top_score_field |-> top_score_field]
  /\ predicted' = Idle
  /\ UNCHANGED <<storeVars, agentVars>>

\* lines 88-89: the threshold predict works with, in thousandths
effective_top_p(self_top_p, top_p) ==
  IF top_p = None
  THEN (IF self_top_p # None /\ self_top_p # Some(0) THEN self_top_p[1] ELSE 1000)
  ELSE top_p[1]

\* np.exp, in thousandths
Exp(x) ==
  CASE x = 0 -> 1000
    [] x = 1 -> 2718
    [] x = 2 -> 7389
    [] x = 3 -> 20086
    [] OTHER -> 54598

RECURSIVE Sum(_)
Sum(seq) == IF seq = <<>> THEN 0 ELSE Head(seq) + Sum(Tail(seq))

\* line 101: the probabilities are exps[i] / Sum(exps); the model keeps the
\* numerators and the common denominator, so its arithmetic is exact
exps(similarity_scores) ==
  [i \in 1..Len(similarity_scores) |-> Exp(similarity_scores[i])]

\* line 104: np.sort(probs)[::-1]
sorted_probs(probs) ==
  LET p == CHOOSE p \in argsort(probs) : TRUE
  IN Reversed([i \in 1..Len(probs) |-> probs[p[i]]])

\* line 105: np.cumsum
cumulative_probs(sorted) == [i \in 1..Len(sorted) |-> Sum(SubSeq(sorted, 1, i))]

\* line 108: np.where(cumulative_probs <= top_p)[0]
top_p_indices(cumulative, total, top_p) ==
  SelectSeq([i \in 1..Len(cumulative) |-> i],
            LAMBDA i : cumulative[i] * 1000 <= top_p * total)

\* line 111: np.argsort(probs)[::-1][top_p_indices]
original_indices(order, indices) ==
  [k \in 1..Len(indices) |-> Reversed(order)[indices[k]]]

\* line 113
selected_docs(documents, indices) ==
  [k \in 1..Len(indices) |-> documents[indices[k]]]

\* the selection is returned as it is
keep_selection(selected, strict, documents, order) == selected

\* lines 117-119
at_least_one(selected, strict, documents, order) ==
  IF selected = <<>> /\ ~strict
  THEN <<documents[Reversed(order)[1]]>>
  ELSE selected

\* lines 122-124: doc.meta[self.top_score_field] = str(sorted_probs[idx])
with_scores(selected, sorted, top_score_field) ==
  [k \in 1..Len(selected) |->
     [document |-> selected[k],
      score |-> IF top_score_field # None THEN Some(sorted[k]) ELSE None]]

\* lines 88-125, for the scores the cross encoder gave and the ordering
\* np.argsort produced
predict(self, documents, similarity_scores, order, top_p) ==
  IF documents = <<>> THEN <<>>
  ELSE LET probs == exps(similarity_scores)
           sorted == sorted_probs(probs)
           indices == top_p_indices(cumulative_probs(sorted), Sum(probs),
                                    effective_top_p(self.top_p, top_p))
           selected == selected_docs(documents, original_indices(order, indices))
       IN with_scores(at_least_one(selected, self.strict, documents, order),
                      sorted, self.top_score_field)

Predict ==
  /\ sampler.state = "ready"
  /\ predicted = Idle
  /\ \E documents \in SeqsUpTo(SamplerDocs, MaxSamplerDocs),
        top_p \in {None} \cup {Some(p) : p \in TopPValues} :
       \E similarity_scores \in [1..Len(documents) -> Logits] :
         \E order \in argsort(exps(similarity_scores)) :
           predicted' = [op |-> "predict", documents |-> documents, top_p |-> top_p,
                         similarity_scores |-> similarity_scores, order |-> order,
                         result |-> predict(sampler, documents, similarity_scores,
                                            order, top_p)]
  /\ UNCHANGED <<sampler, storeVars, agentVars>>

\* the caller drops the arguments and the result of the call
PredictReturn ==
  /\ predicted # Idle
  /\ predicted' = Idle
  /\ UNCHANGED <<sampler, storeVars, agentVars>>

NextSampler ==
  \/ TopPSamplerInit
  \/ Predict
  \/ PredictReturn

SpecSampler == Init /\ [][NextSampler]_vars

\* ================================================================ claims
IsWrite(policy) == call.op = "write_documents" /\ call.duplicates = policy
InputIsDocuments ==
  /\ call.kind \in {"list", "iterator"}
  /\ \A i \in 1..Len(call.documents) : call.documents[i] \in Documents
IdsOf(docs, n) == {docs[k].id : k \in 1..n}
StoredDocuments(st) == {st[i].value : i \in 1..Len(st)}

\* C1: under duplicates="skip", an input document whose id is already stored
\* leaves the document stored under that id as it was before the call, and a
\* warning is logged for it (stated for a list argument).
C1_SkipKeepsExisting ==
  (IsWrite("skip") /\ InputIsDocuments /\ call.kind = "list") =>
    \A i \in 1..Len(call.documents) :
      LET id == call.documents[i].id
      IN HasKey(pre, id) =>
           /\ HasKey(storage, id)
           /\ GetValue(storage, id) = GetValue(pre, id)
           /\ \E w \in 1..Len(warnings) : warnings[w] = id

\* the first position of the input whose id is stored when the loop gets to it
IsConflict(docs, j) ==
  HasKey(pre, docs[j].id) \/ docs[j].id \in IdsOf(docs, j - 1)
FirstConflict(docs) ==
  {j \in 1..Len(docs) : IsConflict(docs, j) /\ \A k \in 1..(j - 1) : ~IsConflict(docs, k)}

\* the store holds what it held before the call plus the first n inputs
HoldsPrefix(docs, n) ==
  /\ Keys(storage) = Keys(pre) \cup IdsOf(docs, n)
  /\ \A k \in Keys(pre) : GetValue(storage, k) = GetValue(pre, k)
  /\ \A k \in 1..n : GetValue(storage, docs[k].id) = docs[k]

\* C2: under duplicates="fail" the call raises DuplicateDocumentError at the
\* first input whose id is already stored (also one inserted earlier by the
\* same call); the inputs before it are inserted, the conflicting id keeps its
\* document and nothing at or after the conflict is written.
C2_FailRaisesAtFirstConflict ==
  (IsWrite("fail") /\ InputIsDocuments) =>
    \A j \in FirstConflict(call.documents) :
      /\ raised = "DuplicateDocumentError"
      /\ HoldsPrefix(call.documents, j - 1)

\* the same statement for arguments that can be traversed more than once
C2_ListFailRaisesAtFirstConflict ==
  (IsWrite("fail") /\ InputIsDocuments /\ call.kind = "list") =>
    /\ \A j \in FirstConflict(call.documents) :
         /\ raised = "DuplicateDocumentError"
         /\ HoldsPrefix(call.documents, j - 1)
    /\ FirstConflict(call.documents) = {} =>
         /\ raised = "none"
         /\ HoldsPrefix(call.documents, Len(call.documents))

\* C3: an argument that is not iterable, is a str, or holds a non-Document at
\* any position makes write_documents raise the validation error with the
\* store exactly as before the call, under every duplicate policy.
C3_ValidationBeforeWrites ==
  (call.op = "write_documents"
     /\ (\/ call.kind \in {"noniterable", "str"}
         \/ \E i \in 1..Len(call.documents) : call.documents[i] = NotADocument)) =>
    /\ raised = "ValueError"
    /\ storage = pre

C3_Witness ==
  /\ call.op = "write_documents"
  /\ call.kind = "list"
  /\ Len(call.documents) = 2
  /\ call.documents[1] \in Documents
  /\ call.documents[2] = NotADocument
  /\ Len(pre) = 1
  /\ ~HasKey(pre, call.documents[1].id)
  /\ raised = "ValueError"

\* the last input document carrying the id
LastWithId(docs, id) ==
  docs[CHOOSE i \in 1..Len(docs) :
         docs[i].id = id /\ \A k \in (i + 1)..Len(docs) : docs[k].id # id]

\* C4: under duplicates="overwrite", for any iterable of Documents (also a
\* one-shot one), the call returns with every input id mapped to the last
\* input document carrying it, and filter_documents() then returns that
\* document and not the one stored before.
C4_OverwriteStoresLast ==
  (IsWrite("overwrite") /\ InputIsDocuments) =>
    /\ raised = "none"
    /\ \A i \in 1..Len(call.documents) :
         LET id == call.documents[i].id
             new == LastWithId(call.documents, id)
             listed == filter_documents(storage, NoFilters)
         IN /\ HasKey(storage, id)
            /\ GetValue(storage, id) = new
            /\ \E n \in 1..Len(listed) : listed[n] = new
            /\ \A n \in 1..Len(listed) : listed[n].id = id => listed[n] = new

\* the same statement for arguments that can be traversed more than once
C4_ListOverwriteStoresLast ==
  (IsWrite("overwrite") /\ InputIsDocuments /\ call.kind = "list") =>
    /\ raised = "none"
    /\ \A i \in 1..Len(call.documents) :
         LET id == call.documents[i].id
         IN HasKey(storage, id)
            /\ GetValue(storage, id) = LastWithId(call.documents, id)

\* the first position of the id list that is not stored when the loop gets there
IsMissing(ids, j) ==
  ~HasKey(pre, ids[j]) \/ ids[j] \in {ids[k] : k \in 1..(j - 1)}
FirstMissing(ids) ==
  {j \in 1..Len(ids) : IsMissing(ids, j) /\ \A k \in 1..(j - 1) : ~IsMissing(ids, k)}
WithoutIds(st, removed) == SelectSeq(st, LAMBDA e : e.key \notin removed)

\* C5: delete_documents raises MissingDocumentError at the first id that is not
\* stored at that moment; the ids before it stay removed, the ids after it and
\* every document not listed stay stored; a single absent id leaves the store
\* as it was.
C5_DeleteFailsFast ==
  call.op = "delete_documents" =>
    LET ids == call.document_ids
    IN /\ \A j \in FirstMissing(ids) :
            /\ raised = "MissingDocumentError"
            /\ storage = WithoutIds(pre, {ids[k] : k \in 1..(j - 1)})
       /\ FirstMissing(ids) = {} =>
            /\ raised = "none"
            /\ storage = WithoutIds(pre, {ids[k] : k \in 1..Len(ids)})
       /\ (Len(ids) = 1 /\ ~HasKey(pre, ids[1])) =>
            (raised = "MissingDocumentError" /\ storage = pre)

C5_Witness ==
  /\ call.op = "delete_documents"
  /\ Len(call.document_ids) = 3
  /\ FirstMissing(call.document_ids) = {2}
  /\ HasKey(pre, call.document_ids[1])
  /\ ~HasKey(storage, call.document_ids[1])
  /\ HasKey(pre, call.document_ids[3])
  /\ HasKey(storage, call.document_ids[3])
  /\ raised = "MissingDocumentError"

\* C6: whatever calls were made, the store holds at most one document per id,
\* each under its own id, count_documents() is the number of stored documents
\* and filter_documents() without filters lists exactly those, each once.
C6_StoreInvariant ==
  /\ \A i, j \in 1..Len(storage) : storage[i].key = storage[j].key => i = j
  /\ \A i \in 1..Len(storage) : storage[i].key = storage[i].value.id
  /\ count_documents(storage) = Cardinality(StoredDocuments(storage))
  /\ LET listed == filter_documents(storage, NoFilters)
     IN /\ {listed[n] : n \in 1..Len(listed)} = StoredDocuments(storage)
        /\ \A m, n \in 1..Len(listed) : listed[m] = listed[n] => m = n
  /\ call.op = "count_documents" => result = Cardinality(StoredDocuments(storage))

C6_Witness ==
  /\ call.op = "write_documents"
  /\ call.duplicates \in {"skip", "overwrite"}
  /\ call.kind = "list"
  /\ raised = "none"
  /\ Len(pre) = 2
  /\ \E i \in 1..Len(call.documents) : HasKey(pre, call.documents[i].id)
  /\ storage # pre
\* ------------------------------------------------------ retrieval claims
IsRetrieval == call.op = "bm25_retrieval"
ScoreOf(doc) == doc.score[1]
Retrievable(st) == {d \in StoredDocuments(st) : d.content_type \in {"text", "table"}}

\* the documents that get a corpus entry, and the score of a document's entry
\* under the weights and scaling of the call
InCorpus(doc) == lower_case_documents(<<doc>>) # <<>>
OwnScore(doc) ==
  scaled_scores(get_scores(tokenized_corpus(lower_case_documents(<<doc>>)),
                           tokenized_query(call.query), call.weights),
                call.scale_score)[1]

\* C7: bm25_retrieval(query, top_k=k) returns at most k documents (none for
\* k below 0), their scores never increase from first to last, and no stored
\* text/table document left out scores higher than a returned one.
C7_AtMostKBestFirst ==
  (IsRetrieval /\ raised = "none") =>
    /\ Len(result) <= (IF call.top_k >= 0 THEN call.top_k ELSE 0)
    /\ \A i \in 1..(Len(result) - 1) : ScoreOf(result[i]) >= ScoreOf(result[i + 1])
    /\ \A d \in Retrievable(pre) :
         (InCorpus(d) /\ \A i \in 1..Len(result) : result[i].id # d.id) =>
           \A i \in 1..Len(result) : OwnScore(d) <= ScoreOf(result[i])

\* the same statement for top_k >= 0 and a store whose tables all hold frames
C7_NonNegativeKBestFirst ==
  (IsRetrieval /\ raised = "none" /\ call.top_k >= 0
     /\ \A d \in Retrievable(pre) : InCorpus(d)) =>
    /\ Len(result) <= call.top_k
    /\ \A i \in 1..(Len(result) - 1) : ScoreOf(result[i]) >= ScoreOf(result[i + 1])
    /\ \A d \in Retrievable(pre) :
         (\A i \in 1..Len(result) : result[i].id # d.id) =>
           \A i \in 1..Len(result) : OwnScore(d) <= ScoreOf(result[i])

\* C8: a bm25_retrieval call with top_k <= 0 that returns, returns the empty
\* sequence, whatever the store holds.
C8_NonPositiveKReturnsNothing ==
  (IsRetrieval /\ call.top_k <= 0 /\ raised = "none") => result = <<>>

\* the same statement for top_k = 0
C8_ZeroKReturnsNothing ==
  (IsRetrieval /\ call.top_k = 0 /\ raised = "none") => result = <<>>

\* C9: on a store without text or table documents bm25_retrieval returns the
\* empty sequence and raises nothing.
C9_EmptyCorpusReturnsNothing ==
  (IsRetrieval /\ Retrievable(pre) = {}) => (raised = "none" /\ result = <<>>)

\* C10: bm25_retrieval leaves the id -> document mapping and every stored
\* document, score included, as before the call, so count_documents and
\* filter_documents answer as before; what it returns are stored documents
\* copied with their score filled in.
C10_RetrievalCopiesOnRead ==
  IsRetrieval =>
    /\ storage = pre
    /\ count_documents(storage) = count_documents(pre)
    /\ \A f \in {NoFilters, TextOrTable} :
         filter_documents(storage, f) = filter_documents(pre, f)
    /\ raised = "none" =>
         \A i \in 1..Len(result) :
           /\ result[i].score # NoScore
           /\ \E d \in StoredDocuments(pre) : result[i] = [d EXCEPT !.score = result[i].score]

C10_Witness ==
  /\ IsRetrieval
  /\ raised = "none"
  /\ Len(result) = 2
  /\ ScoreOf(result[1]) > ScoreOf(result[2])
  /\ storage = pre

NoSkippedTables(st) == \A d \in Retrievable(st) : InCorpus(d)

\* C11: every document bm25_retrieval returns is one that got a corpus
\* entry, and the score it carries is the score of its own entry; a table
\* document skipped from the corpus is never returned and shifts no score.
C11_ScoresAlignWithCorpus ==
  (IsRetrieval /\ raised = "none") =>
    \A i \in 1..Len(result) :
      \E d \in Retrievable(pre) :
        /\ d.id = result[i].id
        /\ InCorpus(d)
        /\ ScoreOf(result[i]) = OwnScore(d)

\* the same statement for a store whose table documents all hold frames
C11_AlignedWithoutSkippedTables ==
  (IsRetrieval /\ raised = "none" /\ NoSkippedTables(pre)) =>
    \A i \in 1..Len(result) :
      \E d \in Retrievable(pre) :
        d.id = result[i].id /\ ScoreOf(result[i]) = OwnScore(d)

\* the position of a document in the filtered list of the call
FilteredPos(id) ==
  LET all == filter_documents(pre, TextOrTable)
  IN CHOOSE n \in 1..Len(all) : all[n].id = id

\* C12: among documents with equal scores the returned order, and the choice
\* of the ones that make the top_k cut, follows their order in the filtered
\* document list (stated for top_k >= 0 and a store without skipped tables).
C12_StableTieBreak ==
  (IsRetrieval /\ raised = "none" /\ call.top_k >= 0 /\ NoSkippedTables(pre)) =>
    /\ \A i, j \in 1..Len(result) :
         (i < j /\ ScoreOf(result[i]) = ScoreOf(result[j])) =>
           FilteredPos(result[i].id) < FilteredPos(result[j].id)
    /\ \A d \in Retrievable(pre) :
         (\A i \in 1..Len(result) : result[i].id # d.id) =>
           \A i \in 1..Len(result) :
             ScoreOf(result[i]) = OwnScore(d) =>
               FilteredPos(result[i].id) < FilteredPos(d.id)

C14_ReflectsStoreWithoutSkippedTables ==
  (IsRetrieval /\ raised = "none" /\ NoSkippedTables(pre)) =>
    \A i \in 1..Len(result) :
      /\ HasKey(pre, result[i].id)
      /\ LET d == GetValue(pre, result[i].id)
         IN /\ d \in Retrievable(pre)
            /\ result[i] = [d EXCEPT !.score = <<OwnScore(d)>>]

\* what a retrieval returns never comes from an earlier call's corpus: the
\* corpus the call leaves in self.bm25 is the one built from the store it saw
C14_CorpusRebuiltPerCall ==
  (IsRetrieval /\ raised = "none") =>
    bm25 = tokenized_corpus(lower_case_documents(filter_documents(pre, TextOrTable)))

\* ---------------------------------------------------------- agent claims
WithoutTools == agent.state = "ready" /\ agent.tools \in {None, Some(<<>>)}
WithTools == agent.state = "ready" /\ agent.tools \notin {None, Some(<<>>)}
IsAddTool == agent_call.op = "add_tool"

\* C15: a ConversationalAgent initialized without tools (None or an empty
\* list) has no tool after any sequence of add_tool calls, and each of these
\* calls raises AgentError; on an agent initialized with at least one tool,
\* add_tool does what Agent.add_tool does and raises nothing.
C15_AgentWithoutToolsGainsNone ==
  /\ WithoutTools =>
       /\ tm = <<>>
       /\ IsAddTool => agent_call.raised = "AgentError" /\ agent_call.before = <<>>
  /\ (WithTools /\ IsAddTool) =>
       /\ agent_call.raised = "none"
       /\ tm = Agent_add_tool(agent_call.before, agent_call.tool)
       /\ HasKey(tm, agent_call.tool.name)

C15_Witness ==
  /\ WithoutTools
  /\ agent.tools = Some(<<>>)
  /\ IsAddTool
  /\ agent_call.raised = "AgentError"
  /\ tm = <<>>

\* -------------------------------------------------------- sampler claims
IsPredict == predicted.op = "predict"

\* the largest probability of the call is above its top_p, so that no
\* cumulative probability is within top_p
NothingWithinTopP ==
  LET probs == exps(predicted.similarity_scores)
  IN \E i \in 1..Len(probs) :
       probs[i] * 1000 > effective_top_p(sampler.top_p, predicted.top_p) * Sum(probs)

\* C16: predict returns [] for an empty document list; with strict=False it
\* returns at least one document for every non-empty list and every top_p,
\* and when no cumulative probability is within top_p it returns exactly one
\* document, one of highest probability; with strict=True it returns no
\* document in that case.
C16_NonStrictReturnsAtLeastOne ==
  IsPredict =>
    /\ predicted.documents = <<>> => predicted.result = <<>>
    /\ (predicted.documents # <<>> /\ ~sampler.strict) => Len(predicted.result) >= 1
    /\ (predicted.documents # <<>> /\ NothingWithinTopP) =>
         IF sampler.strict
         THEN predicted.result = <<>>
         ELSE /\ Len(predicted.result) = 1
              /\ \E i \in 1..Len(predicted.documents) :
                   /\ predicted.result[1].document = predicted.documents[i]
                   /\ \A j \in 1..Len(predicted.documents) :
                        predicted.similarity_scores[j] <= predicted.similarity_scores[i]

C16_Witness ==
  /\ IsPredict
  /\ ~sampler.strict
  /\ Len(predicted.documents) = 2
  /\ predicted.documents[1] # predicted.documents[2]
  /\ predicted.similarity_scores[1] < predicted.similarity_scores[2]
  /\ predicted.top_p = Some(300)
  /\ NothingWithinTopP
  /\ Len(predicted.result) = 1
  /\ predicted.result[1].document = predicted.documents[2]
====
